---------------------------- MODULE Spec2Model ----------------------------
(***************************************************************************)
(* WideFix: arbitrary-precision fixed-point containers (en_cl_fix_pkg).    *)
(*                                                                         *)
(* A container is a record [data, fmt]: data is the numpy object array of  *)
(* raw integers (a sequence here), fmt the FixFormat (S, I, F).  Every     *)
(* method of the class is a pure function of its operands and is modelled *)
(* as an operator with the method's name; the actions are a caller        *)
(* applying one method to the container it holds and, for resize,         *)
(* rebinding its variable to the returned container.                       *)
(*                                                                         *)
(* Python's // , % and >> on int round towards -Inf, as \div and % do.     *)
(***************************************************************************)
EXTENDS Integers, Sequences, FiniteSets

(***************************************************************************)
(* Bounds of the explored input space.                                     *)
(***************************************************************************)
MaxBits == 2
MaxVal == 5
MaxLen == 2
MaxChain == 1
\* Width of one interchange word.  The source packs into uint64 words; the
\* packing loop is the same for any word width and the model runs it with
\* narrow words so that formats of a few bits already need several words.
WordBits == 2

VARIABLES self, other, op, arg, result, packed, warned, chain,
          heap, objs, refs, expect

vars == <<self, other, op, arg, result, packed, warned, chain, heap, objs, refs, expect>>

\* The array objects behind the containers, by identity: heap holds the
\* numpy arrays, objs the WideFix objects with their _data references, refs
\* the references the caller holds, expect what the containers were built
\* with and what the caller has written since.
memVars == <<heap, objs, refs, expect>>

(***************************************************************************)
(* FixFormat (en_cl_fix_types, consumed by wide_fix.py).                   *)
(***************************************************************************)
FixFormat(S, I, F) == [S |-> S, I |-> I, F |-> F]

width(fmt) == fmt.S + fmt.I + fmt.F

FixRound == {"Trunc_s", "NonSymPos_s", "NonSymNeg_s", "SymInf_s", "SymZero_s",
             "ConvEven_s", "ConvOdd_s"}

FixSaturate == {"None_s", "Warn_s", "Sat_s", "SatWarn_s"}

\* Result format of a rounding step: the fraction bits asked for, and one
\* more integer bit when a rounding offset can carry into the integer part.
ForRound(aFmt, rFracBits, rnd) ==
    IF rFracBits >= aFmt.F \/ rnd = "Trunc_s"
    THEN FixFormat(aFmt.S, aFmt.I, rFracBits)
    ELSE FixFormat(aFmt.S, aFmt.I + 1, rFracBits)

(***************************************************************************)
(* WideFix                                                                 *)
(***************************************************************************)
Pow2(n) == 2 ^ n

\* __init__: the container keeps the data and the format it is given.
WideFix(data, fmt) == [data |-> data, fmt |-> fmt]

\* _FromIntScalar: a one-element container.
FromIntScalar(data, fmt) == WideFix(<<data>>, fmt)

\* MaxValue with the sign bit counted into the exponent.
MaxValue_width(fmt) == FromIntScalar(Pow2(width(fmt)) - 1, fmt)

MaxValue(fmt) == FromIntScalar(Pow2(fmt.I + fmt.F) - 1, fmt)

MinValue(fmt) ==
    IF fmt.S = 1
    THEN FromIntScalar(-Pow2(fmt.I + fmt.F), fmt)
    ELSE FromIntScalar(0, fmt)

\* RoundOffset with the two symmetric modes exchanged.
RoundOffset_swapped(v, shift, rnd) ==
    CASE rnd = "Trunc_s"     -> 0
      [] rnd = "NonSymPos_s" -> Pow2(shift - 1)
      [] rnd = "NonSymNeg_s" -> Pow2(shift - 1) - 1
      [] rnd = "SymInf_s"    -> Pow2(shift - 1) - (IF v >= 0 THEN 1 ELSE 0)
      [] rnd = "SymZero_s"   -> Pow2(shift - 1) - (IF v < 0 THEN 1 ELSE 0)
      [] rnd = "ConvEven_s"  -> Pow2(shift - 1) - (((v \div Pow2(shift)) + 1) % 2)
      [] rnd = "ConvOdd_s"   -> Pow2(shift - 1) - ((v \div Pow2(shift)) % 2)

\* The offset round() adds to one element before the right shift by
\* shift = f - fr > 0.
RoundOffset(v, shift, rnd) ==
    CASE rnd = "Trunc_s"     -> 0
      [] rnd = "NonSymPos_s" -> Pow2(shift - 1)
      [] rnd = "NonSymNeg_s" -> Pow2(shift - 1) - 1
      [] rnd = "SymInf_s"    -> Pow2(shift - 1) - (IF v < 0 THEN 1 ELSE 0)
      [] rnd = "SymZero_s"   -> Pow2(shift - 1) - (IF v >= 0 THEN 1 ELSE 0)
      [] rnd = "ConvEven_s"  -> Pow2(shift - 1) - (((v \div Pow2(shift)) + 1) % 2)
      [] rnd = "ConvOdd_s"   -> Pow2(shift - 1) - ((v \div Pow2(shift)) % 2)

\* The rounding offset that round() adds, truncated by one bit too few.
RoundElem_shortshift(v, f, fr, rnd) ==
    IF fr < f
    THEN (v + (IF rnd = "Trunc_s" THEN 0 ELSE Pow2(f - fr - 1))) \div Pow2(f - fr - 1)
    ELSE IF fr > f
         THEN v * Pow2(fr - f)
         ELSE v

\* One element of round().
RoundElem(v, f, fr, rnd) ==
    IF fr < f
    THEN (v + RoundOffset(v, f - fr, rnd)) \div Pow2(f - fr)
    ELSE IF fr > f
         THEN v * Pow2(fr - f)
         ELSE v

AssertionError == [err |-> "AssertionError"]

AttributeError == [err |-> "AttributeError"]

IsError(r) == "err" \in DOMAIN r

round(x, rFmt, rnd) ==
    IF rFmt # ForRound(x.fmt, rFmt.F, rnd)
    THEN AssertionError
    ELSE WideFix([k \in DOMAIN x.data |-> RoundElem(x.data[k], x.fmt.F, rFmt.F, rnd)],
                 rFmt)

\* SaturateElem whose signed wrap forgets to add satSpan before the modulo.
SaturateElem_nooffset(v, rFmt, sat) ==
    IF sat = "None_s" \/ sat = "Warn_s"
    THEN LET satSpan == Pow2(rFmt.I + rFmt.F)
         IN  IF rFmt.S = 1
             THEN (v % (2 * satSpan)) - satSpan
             ELSE v % satSpan
    ELSE LET hi == MaxValue(rFmt).data[1]
             lo == MinValue(rFmt).data[1]
             v1 == IF v > hi THEN hi ELSE v
         IN  IF v1 < lo THEN lo ELSE v1

\* SaturateElem that clamps at the maximum only.
SaturateElem_nolower(v, rFmt, sat) ==
    IF sat = "None_s" \/ sat = "Warn_s"
    THEN LET satSpan == Pow2(rFmt.I + rFmt.F)
         IN  IF rFmt.S = 1
             THEN ((v + satSpan) % (2 * satSpan)) - satSpan
             ELSE v % satSpan
    ELSE LET hi == MaxValue(rFmt).data[1]
         IN  IF v > hi THEN hi ELSE v

\* SaturateElem that lets a value one above the maximum through.
SaturateElem_offbyone(v, rFmt, sat) ==
    IF sat = "None_s" \/ sat = "Warn_s"
    THEN LET satSpan == Pow2(rFmt.I + rFmt.F)
         IN  IF rFmt.S = 1
             THEN ((v + satSpan) % (2 * satSpan)) - satSpan
             ELSE v % satSpan
    ELSE LET hi == MaxValue(rFmt).data[1] + 1
             lo == MinValue(rFmt).data[1]
             v1 == IF v > hi THEN hi ELSE v
         IN  IF v1 < lo THEN lo ELSE v1

\* One element of saturate(): wrap for None_s / Warn_s, clamp otherwise.
SaturateElem(v, rFmt, sat) ==
    IF sat = "None_s" \/ sat = "Warn_s"
    THEN LET satSpan == Pow2(rFmt.I + rFmt.F)
         IN  IF rFmt.S = 1
             THEN ((v + satSpan) % (2 * satSpan)) - satSpan
             ELSE v % satSpan
    ELSE LET hi == MaxValue(rFmt).data[1]
             lo == MinValue(rFmt).data[1]
             v1 == IF v > hi THEN hi ELSE v
         IN  IF v1 < lo THEN lo ELSE v1

saturate(x, rFmt, sat) ==
    WideFix([k \in DOMAIN x.data |-> SaturateElem(x.data[k], rFmt, sat)], rFmt)

\* Whether saturate() emits "resize : Saturation warning!".
SaturationWarning(x, rFmt, sat) ==
    /\ sat = "Warn_s" \/ sat = "SatWarn_s"
    /\ \E k \in DOMAIN x.data :
          \/ x.data[k] > MaxValue(rFmt).data[1]
          \/ x.data[k] < MinValue(rFmt).data[1]

\* resize that wraps the rounded value whatever the saturation mode.
resize_wrap(x, rFmt, rnd, sat) ==
    LET roundedFmt == ForRound(x.fmt, rFmt.F, rnd)
        rounded == round(x, roundedFmt, rnd)
    IN  saturate(rounded, rFmt, "None_s")

resize(x, rFmt, rnd, sat) ==
    LET roundedFmt == ForRound(x.fmt, rFmt.F, rnd)
        rounded == round(x, roundedFmt, rnd)
    IN  saturate(rounded, rFmt, sat)

\* to_uint64_array, one element: the words of val, least significant first,
\* by repeated "% 2**64" and ">>= 64".
PackWords(val, nInts) ==
    [i \in 1 .. nInts |-> (val \div Pow2(WordBits * (i - 1))) % Pow2(WordBits)]

\* uint64Array[i][k] is word i of element k.
to_uint64_array(x) ==
    LET fmtWidth == width(x.fmt)
        nInts == (fmtWidth + (WordBits - 1)) \div WordBits
        val == [k \in DOMAIN x.data |->
                   IF x.data[k] < 0 THEN x.data[k] + Pow2(fmtWidth) ELSE x.data[k]]
    IN  [i \in 1 .. nInts |-> [k \in DOMAIN x.data |-> PackWords(val[k], nInts)[i]]]

RECURSIVE WeightedSum(_, _, _)
\* np.matmul(weights, data), column k: the sum of weights[i] * data[i][k], i <= n.
WeightedSum(data, k, n) ==
    IF n = 0
    THEN 0
    ELSE Pow2(WordBits * (n - 1)) * data[n][k] + WeightedSum(data, k, n - 1)

\* FromUint64Array folding only the values above 2**(I+F).
FromUint64Array_strict(data, fmt) ==
    LET val == [k \in DOMAIN data[1] |-> WeightedSum(data, k, Len(data))]
    IN  WideFix([k \in DOMAIN val |->
                    IF val[k] > Pow2(fmt.I + fmt.F)
                    THEN val[k] - Pow2(fmt.I + fmt.F + 1)
                    ELSE val[k]], fmt)

FromUint64Array(data, fmt) ==
    LET val == [k \in DOMAIN data[1] |-> WeightedSum(data, k, Len(data))]
    IN  WideFix([k \in DOMAIN val |->
                    IF val[k] >= Pow2(fmt.I + fmt.F)
                    THEN val[k] - Pow2(fmt.I + fmt.F + 1)
                    ELSE val[k]], fmt)

(***************************************************************************)
(* Float input.  A float is the rational num / den it holds; the values    *)
(* used are far inside the 53-bit mantissa, where the product with         *)
(* 2.0**F and the sum with 0.5 are exact or, for den = 10, away from any   *)
(* integer by much more than the rounding of the float.                    *)
(***************************************************************************)
Float(num, den) == [num |-> num, den |-> den]

\* v <= w on floats.
FloatLeq(v, w) == v.num * w.den <= w.num * v.den

\* a.max() and a.min() of a float array.
FloatMax(a) == CHOOSE v \in {a[k] : k \in DOMAIN a} : \A k \in DOMAIN a : FloatLeq(a[k], v)

FloatMin(a) == CHOOSE v \in {a[k] : k \in DOMAIN a} : \A k \in DOMAIN a : FloatLeq(v, a[k])

\* np.floor(v * 2.0**F + halves * 0.5) as a Python int.
FloorScaled(v, F, halves) ==
    LET up == Pow2(IF F >= 0 THEN F ELSE 0)
        dn == Pow2(IF F < 0 THEN -F ELSE 0)
    IN  (2 * v.num * up + halves * v.den * dn) \div (2 * v.den * dn)

\* FromNarrowFxp: floor(data * 2.0**F), no bounds checks.
FromNarrowFxp(data, fmt) ==
    WideFix([k \in DOMAIN data |-> FloorScaled(data[k], fmt.F, 0)], fmt)

ValueError == [err |-> "ValueError"]

\* Whether FromFloat emits one of its two "exceeds" warnings.
FromFloatWarning(a, rFmt, sat) ==
    /\ sat = "SatWarn_s" \/ sat = "Sat_s"
    /\ sat = "SatWarn_s" \/ sat = "Warn_s"
    /\ LET amax == FromNarrowFxp(<<FloatMax(a)>>, rFmt).data[1]
           amin == FromNarrowFxp(<<FloatMin(a)>>, rFmt).data[1]
       IN  \/ amax > MaxValue(rFmt).data[1]
           \/ amin < MinValue(rFmt).data[1]

\* FromFloat that quantizes by truncation.
FromFloat_trunc(a, rFmt, sat) ==
    IF sat # "SatWarn_s" /\ sat # "Sat_s"
    THEN ValueError
    ELSE LET x == [k \in DOMAIN a |-> FloorScaled(a[k], rFmt.F, 0)]
             hi == MaxValue(rFmt).data[1]
             lo == MinValue(rFmt).data[1]
             x1 == [k \in DOMAIN a |-> IF x[k] > hi THEN hi ELSE x[k]]
             x2 == [k \in DOMAIN a |-> IF x1[k] < lo THEN lo ELSE x1[k]]
         IN  WideFix(x2, rFmt)

\* FromFloat: mode check, half-up quantization, clamp.
FromFloat(a, rFmt, sat) ==
    IF sat # "SatWarn_s" /\ sat # "Sat_s"
    THEN ValueError
    ELSE LET x == [k \in DOMAIN a |-> FloorScaled(a[k], rFmt.F, 1)]
             hi == MaxValue(rFmt).data[1]
             lo == MinValue(rFmt).data[1]
             x1 == [k \in DOMAIN a |-> IF x[k] > hi THEN hi ELSE x[k]]
             x2 == [k \in DOMAIN a |-> IF x1[k] < lo THEN lo ELSE x1[k]]
         IN  WideFix(x2, rFmt)

(***************************************************************************)
(* Bit access, integer part, fraction part.                                *)
(***************************************************************************)
\* get_msb: the bit at (most significant bit - index) of every element.
get_msb(x, index) ==
    IF x.fmt.S = 1 /\ index = 0
    THEN [k \in DOMAIN x.data |-> IF x.data[k] < 0 THEN 1 ELSE 0]
    ELSE LET shift == width(x.fmt) - 1 - index
         IN  [k \in DOMAIN x.data |-> (x.data[k] \div Pow2(shift)) % 2]

Exception == [err |-> "Exception"]

\* set_msb with the weight of an unsigned bit at every index.
set_msb_unsigned(x, index, value) ==
    IF value > 1 \/ value < 0
    THEN Exception
    ELSE LET weight == Pow2(width(x.fmt) - 1 - index)
         IN  WideFix([k \in DOMAIN x.data |->
                         IF get_msb(x, index)[k] # value
                         THEN x.data[k] - weight * ((-1) ^ value)
                         ELSE x.data[k]], x.fmt)

set_msb(x, index, value) ==
    IF value > 1 \/ value < 0
    THEN Exception
    ELSE LET weight == IF x.fmt.S = 1 /\ index = 0
                       THEN -Pow2(width(x.fmt) - 1 - index)
                       ELSE Pow2(width(x.fmt) - 1 - index)
         IN  WideFix([k \in DOMAIN x.data |->
                         IF get_msb(x, index)[k] # value
                         THEN x.data[k] - weight * ((-1) ^ value)
                         ELSE x.data[k]], x.fmt)

\* floor: ">> F", or "<< -F" when F is negative.
floor(x) ==
    LET rFmt == FixFormat(x.fmt.S, x.fmt.I, 0)
    IN  IF x.fmt.F >= 0
        THEN WideFix([k \in DOMAIN x.data |-> x.data[k] \div Pow2(x.fmt.F)], rFmt)
        ELSE WideFix([k \in DOMAIN x.data |-> x.data[k] * Pow2(-x.fmt.F)], rFmt)

int_part(x) == floor(x)

MinOf(a, b) == IF a <= b THEN a ELSE b

\* frac_part.  With a negative result width 2**width is a float, so is
\* val % 2**width, and the constructor's assertion on the element type fails.
frac_part(x) ==
    LET rFmt == FixFormat(0, MinOf(x.fmt.I, 0), x.fmt.F)
        val == [k \in DOMAIN x.data |->
                   IF x.fmt.S = 1 /\ x.data[k] < 0
                   THEN x.data[k] + Pow2(x.fmt.F + x.fmt.I)
                   ELSE x.data[k]]
    IN  IF width(rFmt) < 0
        THEN AssertionError
        ELSE WideFix([k \in DOMAIN x.data |-> val[k] % Pow2(width(rFmt))], rFmt)

(***************************************************************************)
(* FixFormat.ForAdd / ForSub: the format with the finer binary point of    *)
(* the two operands and the fewest integer bits that hold every sum        *)
(* (difference) of values of the operand formats.                          *)
(***************************************************************************)
MaxOf(a, b) == IF a >= b THEN a ELSE b

Fits(S, I, F, lo, hi) ==
    /\ hi <= Pow2(I + F) - 1
    /\ lo >= (IF S = 1 THEN -Pow2(I + F) ELSE 0)

MinIntBits(S, F, lo, hi, top) ==
    CHOOSE I \in -F .. top :
        /\ Fits(S, I, F, lo, hi)
        /\ \A J \in -F .. (I - 1) : ~Fits(S, J, F, lo, hi)

ForAdd(aFmt, bFmt) ==
    LET S == MaxOf(aFmt.S, bFmt.S)
        F == MaxOf(aFmt.F, bFmt.F)
        sa == Pow2(F - aFmt.F)
        sb == Pow2(F - bFmt.F)
        hi == MaxValue(aFmt).data[1] * sa + MaxValue(bFmt).data[1] * sb
        lo == MinValue(aFmt).data[1] * sa + MinValue(bFmt).data[1] * sb
    IN  FixFormat(S, MinIntBits(S, F, lo, hi, MaxOf(aFmt.I, bFmt.I) + 1), F)

ForSub(aFmt, bFmt) ==
    LET F == MaxOf(aFmt.F, bFmt.F)
        sa == Pow2(F - aFmt.F)
        sb == Pow2(F - bFmt.F)
        hi == MaxValue(aFmt).data[1] * sa - MinValue(bFmt).data[1] * sb
        lo == MinValue(aFmt).data[1] * sa - MaxValue(bFmt).data[1] * sb
    IN  FixFormat(1, MinIntBits(1, F, lo, hi, MaxOf(aFmt.I, bFmt.I) + 1), F)

\* numpy broadcasting of a one-element array against a longer one.
At(data, k) == IF Len(data) = 1 THEN data[1] ELSE data[k]

Shape(a, b) == IF Len(a) >= Len(b) THEN DOMAIN a ELSE DOMAIN b

\* self.copy(): the class defines no method and no attribute named copy
\* (copy is only a parameter of __init__), so the lookup raises.
copy(x) == AttributeError

\* __add__
add(x, y) ==
    LET rFmt == ForAdd(x.fmt, y.fmt)
        a0 == copy(x)
        b0 == copy(y)
    IN  IF IsError(a0) THEN a0
        ELSE IF IsError(b0) THEN b0
        ELSE LET a == round(a0, ForRound(a0.fmt, rFmt.F, "Trunc_s"), "Trunc_s")
                 b == round(b0, ForRound(b0.fmt, rFmt.F, "Trunc_s"), "Trunc_s")
             IN  WideFix([k \in Shape(a.data, b.data) |-> At(a.data, k) + At(b.data, k)],
                         rFmt)

\* __sub__
sub(x, y) ==
    LET rFmt == ForSub(x.fmt, y.fmt)
        a0 == copy(x)
        b0 == copy(y)
    IN  IF IsError(a0) THEN a0
        ELSE IF IsError(b0) THEN b0
        ELSE LET a == round(a0, ForRound(a0.fmt, rFmt.F, "Trunc_s"), "Trunc_s")
                 b == round(b0, ForRound(b0.fmt, rFmt.F, "Trunc_s"), "Trunc_s")
             IN  WideFix([k \in Shape(a.data, b.data) |-> At(a.data, k) - At(b.data, k)],
                         rFmt)

\* AlignBinaryPoints that returns its operands as they are.
AlignBinaryPoints_asis(x, y) == <<x, y>>

\* AlignBinaryPoints([x, y]): both resized (Trunc_s, None_s) to the larger F.
AlignBinaryPoints(x, y) ==
    LET Fmax == MaxOf(x.fmt.F, y.fmt.F)
    IN  <<resize(x, FixFormat(x.fmt.S, x.fmt.I, Fmax), "Trunc_s", "None_s"),
          resize(y, FixFormat(y.fmt.S, y.fmt.I, Fmax), "Trunc_s", "None_s")>>

\* A bare Python int as right-hand operand.
IntOperand(n) == [int |-> n]

IsInt(y) == "int" \in DOMAIN y

\* _extract_comparison_data: the pair a.data, b.data, or the failed assertion.
extract_comparison_data(x, y) ==
    IF IsInt(y) /\ y.int # 0
    THEN AssertionError
    ELSE LET o == IF IsInt(y) THEN FromIntScalar(y.int, x.fmt) ELSE y
             ab == AlignBinaryPoints(x, o)
         IN  [a |-> ab[1].data, b |-> ab[2].data]

Comparisons == {"__eq__", "__ne__", "__lt__", "__le__", "__gt__", "__ge__"}

Rel(cmp, a, b) ==
    CASE cmp = "__eq__" -> a = b
      [] cmp = "__ne__" -> a # b
      [] cmp = "__lt__" -> a < b
      [] cmp = "__le__" -> a <= b
      [] cmp = "__gt__" -> a > b
      [] cmp = "__ge__" -> a >= b

\* The six comparison operators: elementwise on the extracted data.
compare(cmp, x, y) ==
    LET d == extract_comparison_data(x, y)
    IN  IF IsError(d)
        THEN d
        ELSE [bools |-> [k \in Shape(d.a, d.b) |-> Rel(cmp, At(d.a, k), At(d.b, k))]]

(***************************************************************************)
(* FixFormat.ForNeg / ForMult: the same fraction bits (their sum, for the  *)
(* product) and the fewest integer bits that hold every result.            *)
(***************************************************************************)
ForNeg(aFmt) == FixFormat(1, aFmt.I + aFmt.S, aFmt.F)

ForMult(aFmt, bFmt) ==
    LET S == MaxOf(aFmt.S, bFmt.S)
        F == aFmt.F + bFmt.F
        ends == {MinValue(aFmt).data[1], MaxValue(aFmt).data[1]}
        bnds == {MinValue(bFmt).data[1], MaxValue(bFmt).data[1]}
        prods == {p * q : p \in ends, q \in bnds}
        hi == CHOOSE m \in prods : \A n \in prods : n <= m
        lo == CHOOSE m \in prods : \A n \in prods : n >= m
    IN  FixFormat(S, MinIntBits(S, F, lo, hi, aFmt.I + bFmt.I + 2), F)

(***************************************************************************)
(* The methods once more, statement by statement, on array objects with    *)
(* identity.  A cell of the heap holds one numpy array; a container is an  *)
(* object [_data, _fmt] whose _data names a cell.  "val = expr" makes a    *)
(* new array, "val >>= n" and "arr[i] = v" write into an existing one.     *)
(* Each operator returns the heap the call leaves and what it returns.     *)
(***************************************************************************)
MaxCells == 24

Cells == 1 .. MaxCells

\* A cell no array lives in.
NoArray == <<>>

FreeCell(h) == CHOOSE c \in Cells : h[c] = NoArray /\ \A d \in 1 .. (c - 1) : h[d] # NoArray

Store(h, c, arr) == [h EXCEPT ![c] = arr]

\* A new array object holding arr; its reference is FreeCell(h).
New(h, arr) == Store(h, FreeCell(h), arr)

Obj(dataRef, fmt) == [_data |-> dataRef, _fmt |-> fmt]

\* The container an object is, by value.
Value(h, o) == WideFix(h[o._data], o._fmt)

\* __init__ that keeps the caller's array whatever copy says.
init_heap_alias(h, dataRef, fmt, copy_) == [heap |-> h, obj |-> Obj(dataRef, fmt)]

\* __init__: self._data = data.copy() if copy else data.
init_heap(h, dataRef, fmt, copy_) ==
    IF copy_
    THEN [heap |-> New(h, h[dataRef]), obj |-> Obj(FreeCell(h), fmt)]
    ELSE [heap |-> h, obj |-> Obj(dataRef, fmt)]

\* The data property: self._data.copy().
data_heap(h, o) == [heap |-> New(h, h[o._data]), ref |-> FreeCell(h)]

round_heap(h, o, rFmt, rnd) ==
    IF rFmt # ForRound(o._fmt, rFmt.F, rnd)
    THEN [heap |-> h, err |-> "AssertionError"]
    ELSE LET f == o._fmt.F
             fr == rFmt.F
             \* val = np.floor(self._data)
             v1 == FreeCell(h)
             h1 == New(h, h[o._data])
             \* val = val + offset, or val = val * 2**(fr - f)
             rebinds == (fr < f /\ rnd # "Trunc_s") \/ fr > f
             v2 == IF rebinds THEN FreeCell(h1) ELSE v1
             h2 == IF fr < f /\ rnd # "Trunc_s"
                   THEN New(h1, [k \in DOMAIN h1[v1] |->
                                    h1[v1][k] + RoundOffset(h1[v1][k], f - fr, rnd)])
                   ELSE IF fr > f
                        THEN New(h1, [k \in DOMAIN h1[v1] |-> h1[v1][k] * Pow2(fr - f)])
                        ELSE h1
             \* val >>= shift
             h3 == IF fr < f
                   THEN Store(h2, v2, [k \in DOMAIN h2[v2] |-> h2[v2][k] \div Pow2(f - fr)])
                   ELSE h2
         IN  init_heap(h3, v2, rFmt, TRUE)

saturate_heap(h, o, rFmt, sat) ==
    LET \* val = np.floor(self._data)
        v1 == FreeCell(h)
        h1 == New(h, h[o._data])
        hi == MaxValue(rFmt).data[1]
        lo == MinValue(rFmt).data[1]
    IN  IF sat = "None_s" \/ sat = "Warn_s"
        THEN LET \* val = ((val + satSpan) % (2*satSpan)) - satSpan, or val % satSpan
                 v2 == FreeCell(h1)
                 h2 == New(h1, [k \in DOMAIN h1[v1] |-> SaturateElem(h1[v1][k], rFmt, sat)])
             IN  init_heap(h2, v2, rFmt, TRUE)
        ELSE LET \* val = np.where(val > max, max, val); val = np.where(val < min, min, val)
                 v2 == FreeCell(h1)
                 h2 == New(h1, [k \in DOMAIN h1[v1] |->
                                  IF h1[v1][k] > hi THEN hi ELSE h1[v1][k]])
                 v3 == FreeCell(h2)
                 h3 == New(h2, [k \in DOMAIN h2[v2] |->
                                  IF h2[v2][k] < lo THEN lo ELSE h2[v2][k]])
             IN  init_heap(h3, v3, rFmt, TRUE)

resize_heap(h, o, rFmt, rnd, sat) ==
    LET rounded == round_heap(h, o, ForRound(o._fmt, rFmt.F, rnd), rnd)
    IN  saturate_heap(rounded.heap, rounded.obj, rFmt, sat)

get_msb_heap(h, o, index) ==
    [heap |-> New(h, get_msb(Value(h, o), index)), ref |-> FreeCell(h)]

set_msb_heap(h, o, index, value) ==
    IF value > 1 \/ value < 0
    THEN [heap |-> h, err |-> "Exception"]
    ELSE LET bits == get_msb_heap(h, o, index)
             \* self.data in the first branch of np.where
             d == data_heap(bits.heap, o)
             weight == IF o._fmt.S = 1 /\ index = 0
                       THEN -Pow2(width(o._fmt) - 1 - index)
                       ELSE Pow2(width(o._fmt) - 1 - index)
             \* val = np.where(...)
             val == FreeCell(d.heap)
             h1 == New(d.heap, [k \in DOMAIN h[o._data] |->
                                   IF bits.heap[bits.ref][k] # value
                                   THEN d.heap[d.ref][k] - weight * ((-1) ^ value)
                                   ELSE h[o._data][k]])
         IN  init_heap(h1, val, o._fmt, TRUE)

floor_heap(h, o) ==
    LET rFmt == FixFormat(o._fmt.S, o._fmt.I, 0)
        \* self._data >> fmt.F, or self._data << -fmt.F
        val == FreeCell(h)
        h1 == New(h, floor(Value(h, o)).data)
    IN  init_heap(h1, val, rFmt, TRUE)

frac_part_heap(h, o) ==
    LET rFmt == FixFormat(0, MinOf(o._fmt.I, 0), o._fmt.F)
        \* val = self._data
        v0 == o._data
        \* val = np.where(val < 0, val + offset, val), for a signed format
        v1 == IF o._fmt.S = 1 THEN FreeCell(h) ELSE v0
        h1 == IF o._fmt.S = 1
              THEN New(h, [k \in DOMAIN h[v0] |->
                              IF h[v0][k] < 0
                              THEN h[v0][k] + Pow2(o._fmt.F + o._fmt.I)
                              ELSE h[v0][k]])
              ELSE h
    IN  IF width(rFmt) < 0
        THEN [heap |-> h, err |-> "AssertionError"]
        ELSE LET \* val = val % 2**rFmt.width
                 v2 == FreeCell(h1)
                 h2 == New(h1, [k \in DOMAIN h1[v1] |-> h1[v1][k] % Pow2(width(rFmt))])
             IN  init_heap(h2, v2, rFmt, TRUE)

to_uint64_array_heap(h, o) ==
    LET fmtWidth == width(o._fmt)
        nInts == (fmtWidth + (WordBits - 1)) \div WordBits
        \* val = self._data; val = np.where(val < 0, val + 2**fmtWidth, val)
        val == FreeCell(h)
        h1 == New(h, [k \in DOMAIN h[o._data] |->
                         IF h[o._data][k] < 0
                         THEN h[o._data][k] + Pow2(fmtWidth)
                         ELSE h[o._data][k]])
        \* uint64Array = np.empty(...), filled word by word
        u == FreeCell(h1)
        h2 == New(h1, to_uint64_array(Value(h, o)))
        \* val >>= 64, nInts times
        h3 == Store(h2, val, [k \in DOMAIN h2[val] |-> h2[val][k] \div Pow2(WordBits * nInts)])
    IN  [heap |-> h3, ref |-> u]

\* AlignBinaryPoints([x, y]): deep copies, each resized to the larger F.
AlignBinaryPoints_heap(h, ox, oy) ==
    LET \* values = deep_copy(values)
        cx == init_heap(h, ox._data, ox._fmt, TRUE)
        cy == init_heap(cx.heap, oy._data, oy._fmt, TRUE)
        Fmax == MaxOf(ox._fmt.F, oy._fmt.F)
        rx == resize_heap(cy.heap, cx.obj, FixFormat(ox._fmt.S, ox._fmt.I, Fmax),
                          "Trunc_s", "None_s")
        ry == resize_heap(rx.heap, cy.obj, FixFormat(oy._fmt.S, oy._fmt.I, Fmax),
                          "Trunc_s", "None_s")
    IN  [heap |-> ry.heap, a |-> rx.obj, b |-> ry.obj]

neg_heap(h, o) ==
    LET \* -self._data
        val == FreeCell(h)
        h1 == New(h, [k \in DOMAIN h[o._data] |-> -h[o._data][k]])
    IN  init_heap(h1, val, ForNeg(o._fmt), TRUE)

mul_heap(h, ox, oy) ==
    LET \* other.data
        d == data_heap(h, oy)
        \* self._data * other.data
        val == FreeCell(d.heap)
        h1 == New(d.heap, [k \in DOMAIN h[ox._data] |-> h[ox._data][k] * d.heap[d.ref][k]])
    IN  init_heap(h1, val, ForMult(ox._fmt, oy._fmt), TRUE)

\* __add__ and __sub__ stop at self.copy().
add_heap(h, ox, oy) == [heap |-> h, err |-> copy(Value(h, ox)).err]

sub_heap(h, ox, oy) == [heap |-> h, err |-> copy(Value(h, ox)).err]

\* _extract_comparison_data: a.data and b.data of the aligned copies.
extract_comparison_data_heap(h, ox, oy) ==
    LET ab == AlignBinaryPoints_heap(h, ox, oy)
        da == data_heap(ab.heap, ab.a)
        db == data_heap(da.heap, ab.b)
    IN  [heap |-> db.heap, a |-> da.ref, b |-> db.ref]

\* A comparison operator: the extracted data d compared into a new array.
compare_heap(cmp, d) ==
    [heap |-> New(d.heap, [k \in DOMAIN d.heap[d.a] |->
                              IF Rel(cmp, d.heap[d.a][k], d.heap[d.b][k]) THEN 1 ELSE 0]),
     ref |-> FreeCell(d.heap)]

\* What is left when a call returns: the arrays still referenced.
Collect(h, roots) == [c \in Cells |-> IF c \in roots THEN h[c] ELSE NoArray]

(***************************************************************************)
(* Inputs.  Formats have I and F from -1 up, with 0 <= I + F <= MaxBits    *)
(* (2**(I+F) is an integer); data arrays are counters of MaxLen elements,  *)
(* as the co-simulation scripts build them, starting anywhere in           *)
(* -MaxVal .. MaxVal, so that containers made by direct construction hold  *)
(* out-of-range values too.                                                *)
(***************************************************************************)
Formats ==
    {fmt \in [S : {0, 1}, I : -1 .. MaxBits, F : -1 .. MaxBits] :
        fmt.I + fmt.F >= 0 /\ fmt.I + fmt.F <= MaxBits}

Counter(first, n) == [k \in 1 .. n |-> first + (k - 1)]

Containers ==
    {WideFix(Counter(v, MaxLen), fmt) : v \in -MaxVal .. MaxVal, fmt \in Formats}

\* Membership in Containers, without enumerating the set.
IsInput(x) ==
    /\ x.fmt \in Formats
    /\ Len(x.data) = MaxLen
    /\ x.data[1] \in -MaxVal .. MaxVal
    /\ x.data = Counter(x.data[1], MaxLen)

InRange(x) ==
    \A k \in DOMAIN x.data :
       /\ x.data[k] >= MinValue(x.fmt).data[1]
       /\ x.data[k] <= MaxValue(x.fmt).data[1]

NoArg == [rFmt |-> FixFormat(0, 0, 0), rnd |-> "Trunc_s", sat |-> "None_s"]

NoOther == WideFix(<<>>, FixFormat(0, 0, 0))

NoResult == WideFix(<<>>, FixFormat(0, 0, 0))

Init ==
    /\ self \in Containers
    /\ other = NoOther
    /\ op = "none"
    /\ arg = NoArg
    /\ result = NoResult
    /\ packed = <<>>
    /\ warned = FALSE
    /\ chain = 0
    /\ heap = <<>>
    /\ objs = <<>>
    /\ refs = <<>>
    /\ expect = <<>>

(***************************************************************************)
(* The caller applies one method to the container it holds.                *)
(***************************************************************************)
\* y = self.round(rFmt, rnd), with rFmt taken from FixFormat.ForRound or
\* built by hand with the source's integer bits.
Round ==
    /\ op = "none"
    /\ \E fr \in -1 .. MaxBits, rnd \in FixRound, byHand \in BOOLEAN :
          LET rFmt == IF byHand THEN FixFormat(self.fmt.S, self.fmt.I, fr)
                                ELSE ForRound(self.fmt, fr, rnd)
          IN  /\ arg' = [rFmt |-> rFmt, rnd |-> rnd, sat |-> "None_s"]
              /\ result' = round(self, rFmt, rnd)
    /\ op' = "round"
    /\ UNCHANGED <<self, other, packed, warned, chain>>
    /\ UNCHANGED memVars

\* What a caller can pass as sat: a member of FixSaturate, or some other
\* object, here a member of FixRound given by mistake.  Members of different
\* enumerations never compare equal.
SaturateArgs == FixSaturate \cup {"Trunc_s"}

\* y = self.saturate(rFmt, sat)
Saturate ==
    /\ op = "none"
    /\ \E rFmt \in Formats, sat \in SaturateArgs :
          /\ arg' = [rFmt |-> rFmt, rnd |-> "Trunc_s", sat |-> sat]
          /\ result' = saturate(self, rFmt, sat)
          /\ warned' = SaturationWarning(self, rFmt, sat)
    /\ op' = "saturate"
    /\ UNCHANGED <<self, other, packed, chain>>
    /\ UNCHANGED memVars

\* y = self.resize(rFmt, rnd, sat)
Resize ==
    /\ op = "none"
    /\ \E rFmt \in Formats, rnd \in FixRound, sat \in FixSaturate :
          /\ arg' = [rFmt |-> rFmt, rnd |-> rnd, sat |-> sat]
          /\ result' = resize(self, rFmt, rnd, sat)
          /\ warned' = SaturationWarning(
                           round(self, ForRound(self.fmt, rFmt.F, rnd), rnd), rFmt, sat)
    /\ op' = "resize"
    /\ UNCHANGED <<self, other, packed, chain>>
    /\ UNCHANGED memVars

\* x = x.resize(...): the caller goes on with the resized container.  The
\* exploration follows at most MaxChain such steps, through containers of
\* the input space.
Rebind ==
    /\ op = "resize"
    /\ chain < MaxChain
    /\ IsInput(result)
    /\ self' = result
    /\ chain' = chain + 1
    /\ op' = "none"
    /\ arg' = NoArg
    /\ result' = NoResult
    /\ warned' = FALSE
    /\ UNCHANGED <<other, packed>>
    /\ UNCHANGED memVars

\* words = self.to_uint64_array()
Pack ==
    /\ op = "none"
    /\ packed' = to_uint64_array(self)
    /\ op' = "to_uint64_array"
    /\ UNCHANGED <<self, other, arg, result, warned, chain>>
    /\ UNCHANGED memVars

\* y = WideFix.FromUint64Array(words, self.fmt), for at least one word
\* per element.
Unpack ==
    /\ op = "to_uint64_array"
    /\ Len(packed) >= 1
    /\ result' = FromUint64Array(packed, self.fmt)
    /\ op' = "FromUint64Array"
    /\ UNCHANGED <<self, other, arg, packed, warned, chain>>
    /\ UNCHANGED memVars

\* y = WideFix.MaxValue(fmt)
GetMaxValue ==
    /\ op = "none"
    /\ \E fmt \in Formats :
          /\ arg' = [rFmt |-> fmt, rnd |-> "Trunc_s", sat |-> "None_s"]
          /\ result' = MaxValue(fmt)
    /\ op' = "MaxValue"
    /\ UNCHANGED <<self, other, packed, warned, chain>>
    /\ UNCHANGED memVars

\* y = WideFix.MinValue(fmt)
GetMinValue ==
    /\ op = "none"
    /\ \E fmt \in Formats :
          /\ arg' = [rFmt |-> fmt, rnd |-> "Trunc_s", sat |-> "None_s"]
          /\ result' = MinValue(fmt)
    /\ op' = "MinValue"
    /\ UNCHANGED <<self, other, packed, warned, chain>>
    /\ UNCHANGED memVars

\* Right-hand operands: the containers of the input space whose elements are
\* values of their format, and bare ints for the comparisons.
Operands == {c \in Containers : InRange(c)}

IntOperands == {IntOperand(n) : n \in -1 .. 1}

\* r = self + y
Add ==
    /\ op = "none"
    /\ \E y \in Operands :
          /\ other' = y
          /\ result' = add(self, y)
    /\ op' = "__add__"
    /\ UNCHANGED <<self, arg, packed, warned, chain>>
    /\ UNCHANGED memVars

\* r = self - y
Sub ==
    /\ op = "none"
    /\ \E y \in Operands :
          /\ other' = y
          /\ result' = sub(self, y)
    /\ op' = "__sub__"
    /\ UNCHANGED <<self, arg, packed, warned, chain>>
    /\ UNCHANGED memVars

\* r = self <cmp> y, y a container or a bare int
Compare ==
    /\ op = "none"
    /\ \E cmp \in Comparisons, y \in Operands \cup IntOperands :
          /\ other' = y
          /\ result' = compare(cmp, self, y)
          /\ op' = cmp
    /\ UNCHANGED <<self, arg, packed, warned, chain>>
    /\ UNCHANGED memVars

\* Float batches: MaxLen neighbours on a grid of step 1 / den, den a power
\* of two fine enough for ties in every format, or ten.
FloatDens == {Pow2(MaxBits + 1), 10}

FloatCounter(first, den, n) == [k \in 1 .. n |-> Float(first + (k - 1), den)]

FloatArrays ==
    UNION {{FloatCounter(n, den, MaxLen) : n \in -(MaxVal * den) .. (MaxVal * den)} :
              den \in FloatDens}

\* Result formats of the float conversion: one more bit than Formats, as
\* floats reach values no container of the input space holds.
FloatFormats ==
    {fmt \in [S : {0, 1}, I : -1 .. MaxBits, F : -1 .. MaxBits] :
        fmt.I + fmt.F >= 0 /\ fmt.I + fmt.F <= MaxBits + 1}

\* Before any container exists: the static constructors are called first.
InitStatic ==
    /\ self = NoResult
    /\ other = NoOther
    /\ op = "none"
    /\ arg = NoArg
    /\ result = NoResult
    /\ packed = <<>>
    /\ warned = FALSE
    /\ chain = 0
    /\ heap = <<>>
    /\ objs = <<>>
    /\ refs = <<>>
    /\ expect = <<>>

\* y = WideFix.FromFloat(a, rFmt, saturate)
CallFromFloat ==
    /\ op = "none"
    /\ \E a \in FloatArrays, rFmt \in FloatFormats, sat \in SaturateArgs :
          /\ arg' = [a |-> a, rFmt |-> rFmt, rnd |-> "Trunc_s", sat |-> sat]
          /\ result' = FromFloat(a, rFmt, sat)
          /\ warned' = FromFloatWarning(a, rFmt, sat)
    /\ op' = "FromFloat"
    /\ UNCHANGED <<self, other, packed, chain>>
    /\ UNCHANGED memVars

\* Bit values a caller passes to set_msb.
BitArgs == -1 .. 2

\* y = self.set_msb(index, value), index a bit position of the format
SetMsb ==
    /\ op = "none"
    /\ \E index \in 0 .. width(self.fmt) - 1, value \in BitArgs :
          /\ arg' = [index |-> index, value |-> value]
          /\ result' = set_msb(self, index, value)
    /\ op' = "set_msb"
    /\ UNCHANGED <<self, other, packed, warned, chain>>
    /\ UNCHANGED memVars

\* bits = self.get_msb(index)
GetMsb ==
    /\ op = "none"
    /\ \E index \in 0 .. width(self.fmt) - 1 :
          /\ arg' = [index |-> index, value |-> 0]
          /\ result' = [bits |-> get_msb(self, index)]
    /\ op' = "get_msb"
    /\ UNCHANGED <<self, other, packed, warned, chain>>
    /\ UNCHANGED memVars

\* y = self.floor()
Floor ==
    /\ op = "none"
    /\ result' = floor(self)
    /\ op' = "floor"
    /\ UNCHANGED <<self, other, arg, packed, warned, chain>>
    /\ UNCHANGED memVars

\* y = self.int_part()
IntPart ==
    /\ op = "none"
    /\ result' = int_part(self)
    /\ op' = "int_part"
    /\ UNCHANGED <<self, other, arg, packed, warned, chain>>
    /\ UNCHANGED memVars

\* y = self.frac_part()
FracPart ==
    /\ op = "none"
    /\ result' = frac_part(self)
    /\ op' = "frac_part"
    /\ UNCHANGED <<self, other, arg, packed, warned, chain>>
    /\ UNCHANGED memVars

(***************************************************************************)
(* A caller holding two containers x and y and the array a that x was      *)
(* built from, applying any sequence of methods to them and writing into   *)
(* every array it holds a reference to.                                    *)
(***************************************************************************)
\* rnd and sat test points of the co-simulation.
rnd_values == {"Trunc_s", "NonSymPos_s"}

sat_values == {"None_s", "Sat_s"}

\* The first operand: every value of a format, counting up from its
\* minimum, as get_data of the co-simulation builds it.
FirstOperands == {c \in Operands : c.data[1] = MinValue(c.fmt).data[1]}

\* The second operand: the same in x's format, or in one of the other
\* signedness with one more fraction bit.
OtherOperands(x0) ==
    {c \in FirstOperands :
        c.fmt \in {x0.fmt, FixFormat(1 - x0.fmt.S, x0.fmt.I, x0.fmt.F + 1)}}

\* The value the caller writes into element 0 of an array: one that no
\* input holds.
PokeValue == MaxVal + 2

\* a = np.array(...); x = WideFix(a, fmt, copy); y = WideFix(np.array(...), fmt)
InitHeap ==
    /\ self = NoResult
    /\ other = NoOther
    /\ op = "none"
    /\ arg = NoArg
    /\ result = NoResult
    /\ packed = <<>>
    /\ warned = FALSE
    /\ chain = 0
    /\ \E x0 \in FirstOperands, copy_ \in BOOLEAN :
          \E y0 \in OtherOperands(x0) :
             LET h0 == [c \in Cells |-> NoArray]
                 a == FreeCell(h0)
                 cx == init_heap(New(h0, x0.data), a, x0.fmt, copy_)
                 b == FreeCell(cx.heap)
                 cy == init_heap(New(cx.heap, y0.data), b, y0.fmt, TRUE)
             IN  /\ heap = Collect(cy.heap, {a, cx.obj._data, cy.obj._data})
                 /\ objs = [x |-> cx.obj, y |-> cy.obj]
                 /\ refs = [a |-> a, ret |-> {}]
                 /\ expect = [copy |-> copy_, a |-> x0.data, x |-> x0, y |-> y0,
                              wrote |-> {}]

\* The references a call hands back to the caller.
Returned(r) ==
    IF "err" \in DOMAIN r THEN {}
    ELSE IF "obj" \in DOMAIN r THEN {r.obj._data}
    ELSE IF "ref" \in DOMAIN r THEN {r.ref}
    ELSE {r.a._data, r.b._data}

\* The caller calls with no earlier result at hand; the call returns:
\* temporaries go, the caller keeps what was returned.
Return(r, name) ==
    /\ refs.ret = {}
    /\ refs' = [refs EXCEPT !.ret = Returned(r)]
    /\ heap' = Collect(r.heap, {refs.a, objs.x._data, objs.y._data} \cup Returned(r))
    /\ op' = name
    /\ UNCHANGED <<objs, expect, self, other, arg, result, packed, warned, chain>>

CallRound ==
    \E fr \in (objs.x._fmt.F - 1) .. (objs.x._fmt.F + 1), rnd \in rnd_values :
       Return(round_heap(heap, objs.x, ForRound(objs.x._fmt, fr, rnd), rnd), "round")

CallSaturate ==
    \E rFmt \in {f \in Formats : f.S = objs.x._fmt.S /\ f.F = objs.x._fmt.F},
       sat \in sat_values :
       Return(saturate_heap(heap, objs.x, rFmt, sat), "saturate")

CallResize ==
    \E rFmt \in {f \in Formats : f.S = objs.x._fmt.S /\ f.I = objs.x._fmt.I},
       rnd \in rnd_values, sat \in sat_values :
       Return(resize_heap(heap, objs.x, rFmt, rnd, sat), "resize")

CallSetMsb ==
    \E index \in 0 .. width(objs.x._fmt) - 1, value \in BitArgs :
       Return(set_msb_heap(heap, objs.x, index, value), "set_msb")

CallGetMsb ==
    \E index \in 0 .. width(objs.x._fmt) - 1 :
       Return(get_msb_heap(heap, objs.x, index), "get_msb")

CallFloor == Return(floor_heap(heap, objs.x), "floor")

CallFracPart == Return(frac_part_heap(heap, objs.x), "frac_part")

CallPack == Return(to_uint64_array_heap(heap, objs.x), "to_uint64_array")

CallAlign == Return(AlignBinaryPoints_heap(heap, objs.x, objs.y), "AlignBinaryPoints")

CallNeg == Return(neg_heap(heap, objs.x), "__neg__")

CallMul == Return(mul_heap(heap, objs.x, objs.y), "__mul__")

CallAdd == Return(add_heap(heap, objs.x, objs.y), "__add__")

CallSub == Return(sub_heap(heap, objs.x, objs.y), "__sub__")

CallCompare ==
    LET d == extract_comparison_data_heap(heap, objs.x, objs.y)
    IN  \E cmp \in Comparisons : Return(compare_heap(cmp, d), cmp)

\* d = x.data, or d = y.data
ReadData ==
    \E o \in {"x", "y"} : Return(data_heap(heap, objs[o]), "data")

\* r[0] = PokeValue, on an array the caller holds: a or a returned one.
Poke ==
    /\ \E r \in {refs.a} \cup refs.ret :
          /\ heap' = Store(heap, r, [heap[r] EXCEPT ![1] = PokeValue])
          /\ expect' = [expect EXCEPT
                           !.a = IF r = refs.a THEN [@ EXCEPT ![1] = PokeValue] ELSE @,
                           !.wrote = @ \cup {r}]
    /\ op' = "poke"
    /\ UNCHANGED <<objs, refs, self, other, arg, result, packed, warned, chain>>

\* del r: the caller lets go of what the last call returned.
Drop ==
    /\ refs.ret # {}
    /\ refs' = [refs EXCEPT !.ret = {}]
    /\ heap' = Collect(heap, {refs.a, objs.x._data, objs.y._data})
    /\ expect' = [expect EXCEPT !.wrote = @ \ refs.ret]
    /\ op' = "del"
    /\ UNCHANGED <<objs, self, other, arg, result, packed, warned, chain>>

NextRound == Round

SpecRound == Init /\ [][NextRound]_vars

NextSaturate == Saturate

SpecSaturate == Init /\ [][NextSaturate]_vars

NextResize == Resize \/ Rebind

SpecResize == Init /\ [][NextResize]_vars

NextPack == Pack \/ Unpack \/ GetMaxValue \/ GetMinValue

SpecPack == Init /\ [][NextPack]_vars

NextFloat == CallFromFloat

SpecFloat == InitStatic /\ [][NextFloat]_vars

NextBits == SetMsb \/ GetMsb \/ Floor \/ IntPart \/ FracPart

SpecBits == Init /\ [][NextBits]_vars

NextHeap ==
    \/ CallRound \/ CallSaturate \/ CallResize \/ CallSetMsb \/ CallGetMsb
    \/ CallFloor \/ CallFracPart \/ CallPack \/ CallAlign \/ CallNeg \/ CallMul
    \/ CallAdd \/ CallSub \/ CallCompare \/ ReadData \/ Poke \/ Drop

SpecHeap == InitHeap /\ [][NextHeap]_vars

NextArith == Add \/ Sub \/ Compare

SpecArith == Init /\ [][NextArith]_vars

(***************************************************************************)
(* Properties                                                              *)
(***************************************************************************)
Abs(n) == IF n < 0 THEN -n ELSE n

Lo(fmt) == MinValue(fmt).data[1]

Hi(fmt) == MaxValue(fmt).data[1]

\* The number of words ceil(w / WordBits), stated without the division.
CeilWords(w) == CHOOSE n \in 0 .. w : n * WordBits >= w /\ (n - 1) * WordBits < w

RECURSIVE WordsValue(_, _, _)
\* The unsigned integer spelled by words 1 .. n of element k, word 1 the
\* least significant.
WordsValue(words, k, n) ==
    IF n = 0 THEN 0 ELSE words[n][k] * Pow2(WordBits * (n - 1)) + WordsValue(words, k, n - 1)

\* C1: packing an in-range container of a format of width >= 1 gives
\* ceil(width / word size) words per element, each a valid unsigned word,
\* least significant first (together they spell the value modulo 2^width),
\* and FromUint64Array of these words returns the raw values and format of
\* the container.
C1_PackRoundTrip ==
    /\ (op \in {"to_uint64_array", "FromUint64Array"} /\ InRange(self)
            /\ width(self.fmt) >= 1) =>
          /\ Len(packed) = CeilWords(width(self.fmt))
          /\ \A i \in DOMAIN packed :
                /\ DOMAIN packed[i] = DOMAIN self.data
                /\ \A k \in DOMAIN self.data : packed[i][k] \in 0 .. Pow2(WordBits) - 1
          /\ \A k \in DOMAIN self.data :
                WordsValue(packed, k, Len(packed)) = self.data[k] % Pow2(width(self.fmt))
    /\ (op = "FromUint64Array" /\ InRange(self)) =>
          /\ result.data = self.data
          /\ result.fmt = self.fmt

\* A negative value, the minimum of a signed format of several words, has
\* gone through both conversions.
C1_Witness ==
    /\ op = "FromUint64Array"
    /\ self.fmt.S = 1
    /\ Len(packed) >= 2
    /\ self.data[1] = Lo(self.fmt)
    /\ InRange(self)

\* C2: resizing the result of a resize again, with the same target format,
\* rounding mode and saturation mode, returns the same container.
C2_ResizeIdempotent ==
    op = "resize" => resize(result, arg.rFmt, arg.rnd, arg.sat) = result

\* A resize that dropped fraction bits with a half-mode and whose rounded
\* value did not fit the target format.
C2_Witness ==
    /\ op = "resize"
    /\ arg.rnd # "Trunc_s"
    /\ self.fmt.F > arg.rFmt.F
    /\ result.data # round(self, ForRound(self.fmt, arg.rFmt.F, arg.rnd), arg.rnd).data
    /\ result.data # self.data

\* C3: when round drops shift > 0 fraction bits the result q of an element v
\* satisfies |q * 2^shift - v| <= 2^shift, in every mode; when shift <= 0 it
\* is v * 2^(-shift) exactly.
C3_RoundErrorBound ==
    (op = "round" /\ ~IsError(result)) =>
        LET shift == self.fmt.F - arg.rFmt.F
        IN  \A k \in DOMAIN self.data :
               IF shift > 0
               THEN Abs(result.data[k] * Pow2(shift) - self.data[k]) <= Pow2(shift)
               ELSE result.data[k] = self.data[k] * Pow2(-shift)

\* An inexact rounding of a negative value over more than one bit.
C3_Witness ==
    /\ op = "round"
    /\ ~IsError(result)
    /\ self.fmt.F - arg.rFmt.F >= 2
    /\ arg.rnd = "SymInf_s"
    /\ self.data[1] < 0
    /\ result.data[1] * Pow2(self.fmt.F - arg.rFmt.F) # self.data[1]

\* The integer the specification asks of round for an element v and shift > 0.
Nearest(v, shift, rnd) ==
    LET t == v \div Pow2(shift)
        r == v % Pow2(shift)
        h == Pow2(shift - 1)
    IN  IF rnd = "Trunc_s" THEN t
        ELSE IF r < h THEN t
        ELSE IF r > h THEN t + 1
        ELSE CASE rnd = "NonSymPos_s" -> t + 1
               [] rnd = "NonSymNeg_s" -> t
               [] rnd = "SymInf_s"    -> IF v >= 0 THEN t + 1 ELSE t
               [] rnd = "SymZero_s"   -> IF v >= 0 THEN t ELSE t + 1
               [] rnd = "ConvEven_s"  -> IF t % 2 = 0 THEN t ELSE t + 1
               [] rnd = "ConvOdd_s"   -> IF t % 2 = 1 THEN t ELSE t + 1

\* C4: for shift > 0 Trunc_s returns floor(v / 2^shift); the six half modes
\* return the nearest integer, and on an exact tie the upper neighbour
\* (NonSymPos), the lower (NonSymNeg), the one farther from zero (SymInf),
\* the one nearer to zero (SymZero), the even one (ConvEven), the odd one
\* (ConvOdd), for negative and non-negative v.
C4_TieResolution ==
    (op = "round" /\ ~IsError(result) /\ self.fmt.F > arg.rFmt.F) =>
        \A k \in DOMAIN self.data :
           result.data[k] = Nearest(self.data[k], self.fmt.F - arg.rFmt.F, arg.rnd)

\* The tie -5 / 2 rounded away from zero, next to the non-tie -4 / 2.
C4_Witness ==
    /\ op = "round"
    /\ ~IsError(result)
    /\ self.fmt.F - arg.rFmt.F = 1
    /\ arg.rnd = "SymInf_s"
    /\ self.data = <<-5, -4>>
    /\ result.data = <<-3, -2>>

\* C5: saturate with Sat_s or SatWarn_s returns min(max(v, MinValue),
\* MaxValue) of the target format for every element, so a value in range
\* is unchanged, and 5 into (signed, 2, 0) gives 3.
C5_Clamp ==
    (op = "saturate" /\ arg.sat \in {"Sat_s", "SatWarn_s"}) =>
        /\ result.fmt = arg.rFmt
        /\ \A k \in DOMAIN self.data :
              LET v == self.data[k]
                  q == result.data[k]
              IN  /\ v > Hi(arg.rFmt) => q = Hi(arg.rFmt)
                  /\ v < Lo(arg.rFmt) => q = Lo(arg.rFmt)
                  /\ (v >= Lo(arg.rFmt) /\ v <= Hi(arg.rFmt)) => q = v
                  /\ (arg.rFmt = FixFormat(1, 2, 0) /\ v = 5) => q = 3

\* 5 clamped to 3 in (signed, 2, 0), next to 4 clamped to 3.
C5_Witness ==
    /\ op = "saturate"
    /\ arg.sat = "Sat_s"
    /\ arg.rFmt = FixFormat(1, 2, 0)
    /\ self.data = <<4, 5>>
    /\ result.data = <<3, 3>>

\* C6: saturate with None_s or Warn_s returns, for every element v, the one
\* value of the target range that is congruent to v modulo 2^width, so a
\* value in range is unchanged, and 5 into (signed, 2, 0) gives -3.
C6_Wrap ==
    (op = "saturate" /\ arg.sat \in {"None_s", "Warn_s"}) =>
        /\ result.fmt = arg.rFmt
        /\ \A k \in DOMAIN self.data :
              LET v == self.data[k]
                  q == result.data[k]
              IN  /\ q >= Lo(arg.rFmt)
                  /\ q <= Hi(arg.rFmt)
                  /\ (q - v) % Pow2(width(arg.rFmt)) = 0
                  /\ (arg.rFmt = FixFormat(1, 2, 0) /\ v = 5) => q = -3

\* 5 wrapped to -3 in (signed, 2, 0), after 4 wrapped to -4.
C6_Witness ==
    /\ op = "saturate"
    /\ arg.sat = "None_s"
    /\ arg.rFmt = FixFormat(1, 2, 0)
    /\ self.data = <<4, 5>>
    /\ result.data = <<-4, -3>>

\* C7, as stated: MaxValue holds 2^width - 1 and MinValue holds -2^width for
\* a signed format, 0 for an unsigned one, with width = S + I + F.
C7_AsStated ==
    /\ op = "MaxValue" => result.data = <<Pow2(width(arg.rFmt)) - 1>>
    /\ op = "MinValue" =>
          result.data = <<IF arg.rFmt.S = 1 THEN -Pow2(width(arg.rFmt)) ELSE 0>>

\* C7, amended: the exponent is I + F, the width without the sign bit:
\* MaxValue holds 2^(I+F) - 1 and MinValue holds -2^(I+F) for a signed
\* format, 0 for an unsigned one, in a one-element container of the format.
C7_Extremes ==
    (op \in {"MaxValue", "MinValue"}) =>
        LET bits == width(arg.rFmt) - arg.rFmt.S
        IN  /\ result.fmt = arg.rFmt
            /\ Len(result.data) = 1
            /\ op = "MaxValue" => result.data[1] + 1 = Pow2(bits)
            /\ op = "MinValue" =>
                  result.data[1] = (IF arg.rFmt.S = 1 THEN -Pow2(bits) ELSE 0)

\* The maximum 3 of (signed, 2, 0), which has width 3.
C7_Witness ==
    /\ op = "MaxValue"
    /\ arg.rFmt = FixFormat(1, 2, 0)
    /\ result.data = <<3>>

\* C8: whatever the container a chain of resizes starts from, the container
\* each resize returns, and so the one the caller goes on with, has every
\* element inside [MinValue, MaxValue] of its format.
C8_RangeInvariant ==
    /\ op = "resize" => (result.fmt = arg.rFmt /\ InRange(result))
    /\ chain >= 1 => InRange(self)

\* A second resize in a chain, into another format, with clamping acting.
C8_Witness ==
    /\ op = "resize"
    /\ chain >= 1
    /\ arg.rFmt # self.fmt
    /\ arg.sat = "Sat_s"
    /\ arg.rnd = "NonSymPos_s"
    /\ result.data # round(self, ForRound(self.fmt, arg.rFmt.F, arg.rnd), arg.rnd).data

\* C9: a + b and a - b return a container with F = max(a.F, b.F) and raw
\* value a.data * 2^(F - a.F) +/- b.data * 2^(F - b.F): the exact sum
\* (difference).
C9_AddSubExact ==
    (op \in {"__add__", "__sub__"}) =>
        LET rF == IF self.fmt.F >= other.fmt.F THEN self.fmt.F ELSE other.fmt.F
        IN  /\ ~IsError(result)
            /\ result.fmt.F = rF
            /\ DOMAIN result.data = DOMAIN self.data
            /\ \A k \in DOMAIN self.data :
                  LET a == self.data[k] * Pow2(rF - self.fmt.F)
                      b == other.data[k] * Pow2(rF - other.fmt.F)
                  IN  result.data[k] = (IF op = "__add__" THEN a + b ELSE a - b)

\* C10: on containers with elements in range, the six comparisons return
\* elementwise the order of a.data / 2^a.F and b.data / 2^b.F; the int 0 on
\* the right is the value zero; any other int fails.
C10_Comparisons ==
    (op \in Comparisons) =>
        IF IsInt(other)
        THEN IF other.int = 0
             THEN InRange(self) =>
                     /\ ~IsError(result)
                     /\ \A k \in DOMAIN self.data :
                           result.bools[k] = Rel(op, self.data[k], 0)
             ELSE IsError(result)
        ELSE (InRange(self) /\ InRange(other)) =>
                /\ ~IsError(result)
                /\ DOMAIN result.bools = DOMAIN self.data
                /\ \A k \in DOMAIN self.data :
                      result.bools[k] = Rel(op, self.data[k] * Pow2(other.fmt.F + 1),
                                            other.data[k] * Pow2(self.fmt.F + 1))

\* A signed and an unsigned operand with different binary points, whose raw
\* integers are ordered the other way round than their values.
C10_Witness ==
    /\ op = "__lt__"
    /\ ~IsInt(other)
    /\ InRange(self)
    /\ InRange(other)
    /\ self.fmt.S # other.fmt.S
    /\ self.fmt.F < other.fmt.F
    /\ self.data[1] > 0
    /\ self.data[1] < other.data[1]
    /\ result.bools[1] = FALSE

\* C11: saturate called with a mode that is none of None_s, Warn_s, Sat_s,
\* SatWarn_s fails with an error and returns no container.
C11_RejectsUnknownMode ==
    (op = "saturate" /\ arg.sat \notin FixSaturate) => IsError(result)

\* The integer q is v * 2^F + 1/2 rounded down: q <= v * 2^F + 1/2 < q + 1,
\* stated for the two bounds apart and without a division.
AtLeastHalfUp(q, v, F) ==
    LET up == Pow2(IF F >= 0 THEN F ELSE 0)
        dn == Pow2(IF F < 0 THEN -F ELSE 0)
    IN  2 * v.den * dn * q <= 2 * v.num * up + v.den * dn

BelowHalfUp(q, v, F) ==
    LET up == Pow2(IF F >= 0 THEN F ELSE 0)
        dn == Pow2(IF F < 0 THEN -F ELSE 0)
    IN  2 * v.num * up + v.den * dn < 2 * v.den * dn * q

\* C12: FromFloat with a mode other than Sat_s / SatWarn_s fails, with no
\* result and no warning; with Sat_s or SatWarn_s it returns, per element,
\* floor(v * 2^F + 0.5) clamped into [MinValue, MaxValue] of the result
\* format, and 3.3 into (unsigned, 2, 1) gives 7.
C12_FromFloatModes ==
    (op = "FromFloat") =>
        IF arg.sat \in {"Sat_s", "SatWarn_s"}
        THEN /\ ~IsError(result)
             /\ result.fmt = arg.rFmt
             /\ DOMAIN result.data = DOMAIN arg.a
             /\ \A k \in DOMAIN arg.a :
                   LET r == result.data[k]
                   IN  /\ r >= Lo(arg.rFmt)
                       /\ r <= Hi(arg.rFmt)
                       /\ r > Lo(arg.rFmt) => AtLeastHalfUp(r, arg.a[k], arg.rFmt.F)
                       /\ r < Hi(arg.rFmt) => BelowHalfUp(r + 1, arg.a[k], arg.rFmt.F)
                       /\ (arg.a[k] = Float(33, 10) /\ arg.rFmt = FixFormat(0, 2, 1)) => r = 7
        ELSE /\ IsError(result)
             /\ ~warned

\* 3.3 and 3.4 into (unsigned, 2, 1): 7.1 and 7.3 floored to 7.
C12_Witness ==
    /\ op = "FromFloat"
    /\ arg.sat = "Sat_s"
    /\ arg.rFmt = FixFormat(0, 2, 1)
    /\ arg.a = <<Float(33, 10), Float(34, 10)>>
    /\ result.data = <<7, 7>>

\* C15: FromFloat with SatWarn_s warns exactly when some element's half-up
\* quantized value floor(v * 2^F + 0.5) is above MaxValue or below MinValue
\* of the result format, that is, when the clamp changes a value.
C15_WarnIffClamped ==
    (op = "FromFloat" /\ arg.sat = "SatWarn_s") =>
        (warned <=> \E k \in DOMAIN arg.a :
                       \/ AtLeastHalfUp(Hi(arg.rFmt) + 1, arg.a[k], arg.rFmt.F)
                       \/ BelowHalfUp(Lo(arg.rFmt), arg.a[k], arg.rFmt.F))

\* Bit (w - 1 - i) of the w-bit two's-complement pattern of v.
PatternBit(v, w, i) == ((v % Pow2(w)) \div Pow2(w - 1 - i)) % 2

\* C14: on an in-range container of width w >= 1, get_msb(i) returns bit
\* (w - 1 - i) of the two's-complement pattern, which for a signed format
\* and i = 0 is 1 exactly for negative values; y = set_msb(i, b) with b in
\* {0, 1} has bit i equal to b and every other bit as before, is in range
\* of the same format, equals x where the bit already was b, and setting
\* the bit again changes nothing; any other b fails.
C14_MsbPostcondition ==
    /\ (op = "get_msb" /\ InRange(self)) =>
          \A k \in DOMAIN self.data :
             /\ result.bits[k] = PatternBit(self.data[k], width(self.fmt), arg.index)
             /\ (self.fmt.S = 1 /\ arg.index = 0) =>
                    (result.bits[k] = 1 <=> self.data[k] < 0)
    /\ (op = "set_msb" /\ arg.value \notin {0, 1}) => IsError(result)
    /\ (op = "set_msb" /\ arg.value \in {0, 1} /\ InRange(self)) =>
          /\ ~IsError(result)
          /\ result.fmt = self.fmt
          /\ InRange(result)
          /\ set_msb(result, arg.index, arg.value) = result
          /\ \A k \in DOMAIN self.data :
                /\ get_msb(result, arg.index)[k] = arg.value
                /\ \A j \in 0 .. width(self.fmt) - 1 :
                      PatternBit(result.data[k], width(self.fmt), j) =
                         (IF j = arg.index
                          THEN arg.value
                          ELSE PatternBit(self.data[k], width(self.fmt), j))
                /\ get_msb(self, arg.index)[k] = arg.value =>
                      result.data[k] = self.data[k]

\* The sign bit of a signed format of several bits cleared on a negative
\* element and left alone on a non-negative one.
C14_Witness ==
    /\ op = "set_msb"
    /\ self.fmt.S = 1
    /\ width(self.fmt) >= 3
    /\ InRange(self)
    /\ arg.index = 0
    /\ arg.value = 0
    /\ self.data[1] = -1
    /\ result.data[1] = Hi(self.fmt)
    /\ result.data[2] = self.data[2]

\* C16: floor / int_part of a container of any format, negative intBits or
\* fracBits included, returns the format (signed, intBits, 0), of width
\* >= 0, with raw value floor(data / 2^fracBits), inside [MinValue,
\* MaxValue] of that format when the input is in range of its own.
C16_FloorInvariant ==
    (op \in {"floor", "int_part"}) =>
        /\ result.fmt = FixFormat(self.fmt.S, self.fmt.I, 0)
        /\ \A k \in DOMAIN self.data :
              IF self.fmt.F >= 0
              THEN /\ result.data[k] * Pow2(self.fmt.F) <= self.data[k]
                   /\ self.data[k] < (result.data[k] + 1) * Pow2(self.fmt.F)
              ELSE result.data[k] = self.data[k] * Pow2(-self.fmt.F)
        /\ width(result.fmt) >= 0
        /\ InRange(self) => (result.fmt.I >= 0 /\ InRange(result))

\* C17: for fracBits >= 0 and x in range, frac_part(x) is non-negative and
\* in range of the unsigned format (min(intBits, 0), fracBits), and
\* floor(x).data * 2^fracBits + frac_part(x).data = x.data.
C17_IntFracDecompose ==
    (op = "frac_part" /\ self.fmt.F >= 0 /\ InRange(self)) =>
        /\ ~IsError(result)
        /\ result.fmt = FixFormat(0, MinOf(self.fmt.I, 0), self.fmt.F)
        /\ \A k \in DOMAIN self.data :
              /\ result.data[k] >= 0
              /\ result.data[k] <= Pow2(MinOf(self.fmt.I, 0) + self.fmt.F) - 1
              /\ floor(self).data[k] * Pow2(self.fmt.F) + result.data[k] = self.data[k]

\* C18: with Sat_s or SatWarn_s, resize is monotonic in the raw value, for
\* every source format, target format and rounding mode; and an in-range
\* value that rounds to more than MaxValue of the target comes back as that
\* MaxValue.
C18_ClampMonotonic ==
    (op = "resize" /\ arg.sat \in {"Sat_s", "SatWarn_s"}) =>
        /\ \A k, j \in DOMAIN self.data :
              self.data[k] <= self.data[j] => result.data[k] <= result.data[j]
        /\ \A k \in DOMAIN self.data :
              (/\ self.data[k] >= Lo(self.fmt)
               /\ self.data[k] <= Hi(self.fmt)
               /\ self.fmt.F > arg.rFmt.F
               /\ Nearest(self.data[k], self.fmt.F - arg.rFmt.F, arg.rnd) > Hi(arg.rFmt))
              => result.data[k] = Hi(arg.rFmt)

\* The maximum of the source format rounded up past the maximum of a target
\* with as many integer bits, and clamped.
C18_Witness ==
    /\ op = "resize"
    /\ arg.sat = "Sat_s"
    /\ arg.rnd = "NonSymPos_s"
    /\ InRange(self)
    /\ self.data[MaxLen] = Hi(self.fmt)
    /\ arg.rFmt = FixFormat(self.fmt.S, self.fmt.I, self.fmt.F - 1)
    /\ self.data[MaxLen] \div 2 = Hi(arg.rFmt)
    /\ Nearest(self.data[MaxLen], 1, arg.rnd) = Hi(arg.rFmt) + 1
    /\ result.data[MaxLen] = Hi(arg.rFmt)

\* C13: whatever methods are called on x (with y as the other operand) and
\* whatever the caller writes into the arrays it holds, the caller's array
\* a changes only by the caller's writes, y holds the values and format it
\* was built with, and so does x when built with copy=True; built with
\* copy=False, x holds what the caller's array a holds.
C13_Immutable ==
    /\ heap[refs.a] = expect.a
    /\ Value(heap, objs.y) = expect.y
    /\ Value(heap, objs.x) = (IF expect.copy THEN expect.x ELSE WideFix(expect.a, expect.x.fmt))

\* x was built with copy=True, the caller has since overwritten an element
\* of a and one of an array x handed back, and before that a method ran.
C13_Witness ==
    /\ op = "poke"
    /\ expect.copy
    /\ refs.a \in expect.wrote
    /\ heap[refs.a] # expect.x.data
    /\ refs.ret \cap expect.wrote # {}
    /\ Value(heap, objs.x) = expect.x

=============================================================================
